---- MODULE Spec2Model ----
(***************************************************************************)
(* A model of mlir_linalg/dsl/tc_model.py: the tensor-comprehension model  *)
(* classes (Expression, TensorUse, TensorDef, Comprehension, Prim, Reduce, *)
(* PrimApply, ReduceApply, TcOpDef).                                       *)
(*                                                                         *)
(* Python objects are modelled as follows.                                 *)
(*   - None is the empty tuple <<>>, an optional value v is <<v>>.         *)
(*   - A dict is the sequence of its <<key, value>> items in insertion     *)
(*     order; a list or tuple is a sequence; a set is a set.               *)
(*   - A TensorDef is an object id; its fields are the functions owner,    *)
(*     tensor_name and registered_index.  A TcOpDef is named by its name.  *)
(*   - An Expression is a record tagged with its class in `node`; an index *)
(*     value is a record tagged with its class in `kind`.                  *)
(*   - A raised exception is recorded in result.error.                     *)
(***************************************************************************)
EXTENDS Integers, Sequences, FiniteSets, TLC

VARIABLES
  owner,               \* TensorDef.owner, per TensorDef
  tensor_name,         \* TensorDef.tensor_name, per TensorDef
  registered_index,    \* TensorDef.registered_index, per TensorDef
  registered_tensors,  \* TcOpDef.registered_tensors, per TcOpDef
  comprehensions,      \* TcOpDef.comprehensions, per TcOpDef
  affine_state,        \* TcOpDef._affine_state, per TcOpDef
  resolved,            \* history: every <<kind, name, position>> a resolution returned, per TcOpDef
  input,               \* the arguments of the pure call under study
  result               \* the outcome of the last call

vars == <<owner, tensor_name, registered_index, registered_tensors,
          comprehensions, affine_state, resolved, input, result>>

tensorVars == <<owner, tensor_name, registered_index>>
opVars == <<registered_tensors, comprehensions, affine_state, resolved>>

-----------------------------------------------------------------------------
(* Bounds of the model. *)

\* Largest index a direct call of TensorDef.attach passes.
MaxIndex == 0
\* Largest number of comprehensions appended in one run.
MaxComps == 2
\* Longest index tuple of the expressions the pure functions are applied to.
MaxRank == 2
\* Longest shape specification coerced.
MaxShape == 2

\* The TcOpDef objects, by name.
OpNames == {"matmul", "conv"}
\* The TensorDef objects.
TensorDefs == {1, 2, 3}
\* The names tensors are registered under ("tensor_name" is the literal key
\* add_tensor's error message looks up).
TensorNames == {"A", "B", "tensor_name"}
\* Names of the dimension and symbol placeholders (D.m, S.M, ...).
DimNames == {"m", "n", "k"}
SymNames == {"M", "K"}

-----------------------------------------------------------------------------
(* Python values. *)

None == <<>>
Some(v) == <<v>>

Range(s) == {s[i] : i \in DOMAIN s}

\* dict: the keys, `k in d`, d[k], d[k] = v.
Keys(d) == {d[i][1] : i \in DOMAIN d}
DictGet(d, k) == d[CHOOSE i \in DOMAIN d : d[i][1] = k][2]
DictSet(d, k, v) ==
  IF k \in Keys(d)
  THEN [i \in DOMAIN d |-> IF d[i][1] = k THEN <<k, v>> ELSE d[i]]
  ELSE Append(d, <<k, v>>)

\* The record of a call: its name and arguments, what it raised ("none" when it
\* returned) and what it returned (None when it returned nothing).
Returned(call, args, v) == [call |-> call, args |-> args, error |-> "none", value |-> v]
Raised(call, args, err) == [call |-> call, args |-> args, error |-> err, value |-> None]

-----------------------------------------------------------------------------
(* TensorDef: registration. *)

\* `if self.owner:` of TensorDef.attach (AlwaysUnattached: the check left out).
AlwaysUnattached(tdef) == FALSE
AlreadyAttached(tdef) == owner[tdef] # None

\* The three assignments of TensorDef.attach.
AttachFields(tdef, index, tname, op) ==
  /\ registered_index' = [registered_index EXCEPT ![tdef] = Some(index)]
  /\ tensor_name' = [tensor_name EXCEPT ![tdef] = Some(tname)]
  /\ owner' = [owner EXCEPT ![tdef] = Some(op)]

\* A direct call tdef.attach(index, tensor_name, owner).
attach(tdef, index, tname, op) ==
  LET args == [tensor |-> tdef, index |-> index, tensor_name |-> tname, owner |-> op]
  IN IF AlreadyAttached(tdef)
     THEN /\ result' = Raised("attach", args, "ValueError")
          /\ UNCHANGED <<tensorVars, opVars, input>>
     ELSE /\ AttachFields(tdef, index, tname, op)
          /\ result' = Returned("attach", args, None)
          /\ UNCHANGED <<opVars, input>>

\* The exception the raise statement of add_tensor ends in: its message
\* evaluates self.registered_tensors['tensor_name'], a KeyError unless a
\* tensor is registered under the literal name "tensor_name".
DuplicateError(op) ==
  IF "tensor_name" \in Keys(registered_tensors[op]) THEN "ValueError" ELSE "KeyError"

\* `if tensor_name in self.registered_tensors:` of TcOpDef.add_tensor
\* (NeverRegistered: the check left out).
NeverRegistered(op, tname) == FALSE
NameRegistered(op, tname) == tname \in Keys(registered_tensors[op])

\* The index add_tensor passes to attach: len(self.registered_tensors)
\* (ConstantIndex: always the first index).
ConstantIndex(op) == 0
NextIndex(op) == Len(registered_tensors[op])

\* op.add_tensor(tensor_name, tdef).
add_tensor(op, tname, tdef) ==
  LET args == [op |-> op, tensor_name |-> tname, tensor |-> tdef]
  IN IF NameRegistered(op, tname)
     THEN /\ result' = Raised("add_tensor", args, DuplicateError(op))
          /\ UNCHANGED <<tensorVars, opVars, input>>
     ELSE IF AlreadyAttached(tdef)
     THEN /\ result' = Raised("add_tensor", args, "ValueError")
          /\ UNCHANGED <<tensorVars, opVars, input>>
     ELSE /\ AttachFields(tdef, NextIndex(op), tname, op)
          /\ registered_tensors' =
               [registered_tensors EXCEPT ![op] = DictSet(@, tname, tdef)]
          /\ result' = Returned("add_tensor", args, None)
          /\ UNCHANGED <<comprehensions, affine_state, resolved, input>>

\* op.tensor(name).
tensor(op, tname) ==
  LET args == [op |-> op, name |-> tname]
  IN /\ result' = IF tname \in Keys(registered_tensors[op])
                  THEN Returned("tensor", args, Some(DictGet(registered_tensors[op], tname)))
                  ELSE Raised("tensor", args, "KeyError")
     /\ UNCHANGED <<tensorVars, opVars, input>>

-----------------------------------------------------------------------------
(* Index values and expressions. *)

\* The placeholders D.<name> and S.<name>, and a raw Python int.
DimDef(n) == [kind |-> "DimDef", name |-> n]
SymbolDef(n) == [kind |-> "SymbolDef", name |-> n]
PyInt(n) == [kind |-> "int", name |-> n]
\* A Python tuple of index values.
PyTuple(items) == [kind |-> "tuple", items |-> items]

\* isinstance(v, AffineExprDef): the symbolic leaves.
IsAffineExprDef(v) == "kind" \in DOMAIN v /\ v.kind \in {"DimDef", "SymbolDef"}
\* isinstance(v, DimDef).
IsDimDef(v) == "kind" \in DOMAIN v /\ v.kind = "DimDef"

\* The constructors TensorUse(tensor_def, indices), PrimApply(prim, args),
\* Reduce(operator, *reduce_dims), ReduceApply(reduce, args), and
\* Comprehension(*bindings).  A Prim is named by its prim_name.
TensorUse(tensor_def, indices) ==
  [node |-> "TensorUse", tensor_def |-> tensor_def, indices |-> indices]
PrimApply(prim, args) ==
  [node |-> "PrimApply", prim |-> prim, args |-> args]
Reduce(operator, reduce_dims) ==
  [operator |-> operator, reduce_dims |-> reduce_dims]
ReduceApply(reduce, args) ==
  [node |-> "ReduceApply", reduce |-> reduce, args |-> args]
Comprehension(bindings) ==
  [definitions |-> [i \in DOMAIN bindings |-> bindings[i][1]],
   values |-> [i \in DOMAIN bindings |-> bindings[i][2]]]
\* A plain instance of the base class, and a Python int where an expression
\* is expected.
BaseExpression == [node |-> "Expression"]
PyIntValue == [node |-> "int"]

\* isinstance(v, Expression).
IsExpression(v) ==
  /\ "node" \in DOMAIN v
  /\ v.node \in {"Expression", "TensorUse", "PrimApply", "ReduceApply"}

\* What a traversal did: the values it handed to the callback, in the order of
\* the calls, and the exception that ended it, if any.
Visited(seq) == [visited |-> seq, error |-> "none"]
VisitRaised(seq) == [visited |-> seq, error |-> "AttributeError"]
\* One traversal after another: the second does not start when the first
\* raised.
VisitThen(first, second) ==
  IF first.error # "none" THEN first
  ELSE [visited |-> first.visited \o second.visited, error |-> second.error]

\* A leaf's visit_affine_exprs: it hands itself to the callback.
LeafVisit(leaf) == Visited(<<leaf>>)

\* visit_affine_exprs, by the class of the object it is called on: the three
\* node classes override it, the base class does nothing, a leaf has its own,
\* and any other object (an int) has no such attribute.  VisitEach is the loop
\* `for x in children: x.visit_affine_exprs(callback)` (ReduceApplyVisitArgsOnly:
\* a ReduceApply that visits its arguments alone).
RECURSIVE visit_affine_exprs(_)
RECURSIVE VisitEach(_)
VisitEach(children) ==
  IF children = <<>> THEN Visited(<<>>)
  ELSE VisitThen(visit_affine_exprs(Head(children)), VisitEach(Tail(children)))
ReduceApplyVisitArgsOnly(e) == VisitEach(e.args)
ReduceApplyVisit(e) == VisitThen(VisitEach(e.reduce.reduce_dims), VisitEach(e.args))
PrimApplyVisit(e) == VisitEach(e.args)
TensorUseVisit(e) == VisitEach(e.indices)
visit_affine_exprs(e) ==
  IF "node" \in DOMAIN e
  THEN CASE e.node = "TensorUse" -> TensorUseVisit(e)
         [] e.node = "PrimApply" -> PrimApplyVisit(e)
         [] e.node = "ReduceApply" -> ReduceApplyVisit(e)
         [] e.node = "Expression" -> Visited(<<>>)
         [] OTHER -> VisitRaised(<<>>)
  ELSE IF IsAffineExprDef(e) THEN LeafVisit(e)
  ELSE VisitRaised(<<>>)

\* Expression._get_all_dim_defs: the set the visitor collects, or the
\* exception of the traversal; an object that is no Expression has no such
\* method (get_all_defs: a visitor that keeps every value it is handed).
get_all_defs(e) ==
  IF ~IsExpression(e) THEN [error |-> "AttributeError", value |-> {}]
  ELSE LET v == visit_affine_exprs(e)
       IN IF v.error # "none" THEN [error |-> v.error, value |-> {}]
          ELSE [error |-> "none", value |-> Range(v.visited)]
get_all_dim_defs(e) ==
  IF ~IsExpression(e) THEN [error |-> "AttributeError", value |-> {}]
  ELSE LET v == visit_affine_exprs(e)
       IN IF v.error # "none" THEN [error |-> v.error, value |-> {}]
          ELSE [error |-> "none", value |-> {a \in Range(v.visited) : IsDimDef(a)}]

\* TensorUse._compute_reduce_dims: the dims of rhs, then those of self, then
\* their difference.
compute_reduce_dims(use, rhs) ==
  LET rhs_dims == get_all_dim_defs(rhs)
      lhs_dims == get_all_dim_defs(use)
  IN IF rhs_dims.error # "none" THEN rhs_dims
     ELSE IF lhs_dims.error # "none" THEN lhs_dims
     ELSE [error |-> "none", value |-> rhs_dims.value \ lhs_dims.value]

\* The orders in which iterating a Python set can yield its elements: the
\* order follows the elements' hashes, not their insertion.
SetIterationOrders(S) ==
  {p \in [1..Cardinality(S) -> S] : \A i, j \in DOMAIN p : p[i] = p[j] => i = j}

\* TensorUse.__iadd__: Reduce.add(*self._compute_reduce_dims(rhs))(rhs), one
\* outcome for each order the set can be unpacked in.
iadd(use, rhs) ==
  LET dims == compute_reduce_dims(use, rhs)
  IN IF dims.error # "none" THEN {[error |-> dims.error, value |-> None]}
     ELSE {[error |-> "none", value |-> Some(ReduceApply(Reduce("add", p), <<rhs>>))] :
             p \in SetIterationOrders(dims.value)}

\* Expression.__add__, __mul__, __sub__.
ExprAdd(lhs, rhs) == PrimApply("add", <<lhs, rhs>>)
ExprMul(lhs, rhs) == PrimApply("mul", <<lhs, rhs>>)
ExprSub(lhs, rhs) == PrimApply("sub", <<lhs, rhs>>)

-----------------------------------------------------------------------------
(* TensorDef: indexing and assignment. *)

\* Total number of comprehensions appended so far.
RECURSIVE SumLen(_, _)
SumLen(f, S) ==
  IF S = {} THEN 0
  ELSE LET o == CHOOSE x \in S : TRUE IN Len(f[o]) + SumLen(f, S \ {o})
CompCount == SumLen(comprehensions, OpNames)

\* `if not isinstance(dims, tuple): dims = (dims,)`.
AsTuple(dims) == IF dims.kind = "tuple" THEN dims.items ELSE <<dims>>

\* The isinstance check of the loop of __getitem__ (AcceptAnyIndex: the check
\* left out).
AcceptAnyIndex(items) == TRUE
AllAffineExprDefs(items) == \A i \in DOMAIN items : IsAffineExprDef(items[i])

\* TensorDef.__getitem__: what tdef[dims] raises or returns.  The local
\* AffineBuildState it creates from self.owner._affine_state (an
\* AttributeError when owner is None) is never resolved against.
GetItem(tdef, dims) ==
  IF owner[tdef] = None THEN [error |-> "AttributeError", value |-> None]
  ELSE IF ~AllAffineExprDefs(AsTuple(dims)) THEN [error |-> "KeyError", value |-> None]
  ELSE [error |-> "none", value |-> Some(TensorUse(tdef, AsTuple(dims)))]

\* The call tdef[dims].
getitem(tdef, dims) ==
  /\ result' = [call |-> "getitem", args |-> [tensor |-> tdef, dims |-> dims],
                error |-> GetItem(tdef, dims).error,
                value |-> GetItem(tdef, dims).value]
  /\ UNCHANGED <<tensorVars, opVars, input>>

\* self.owner.comprehensions.append(comp) (PrependTo: an insert at the front).
PrependTo(op, comp) ==
  comprehensions' = [comprehensions EXCEPT ![op] = <<comp>> \o @]
AppendTo(op, comp) ==
  comprehensions' = [comprehensions EXCEPT ![op] = Append(@, comp)]

\* `if not isinstance(value, Expression)` of __setitem__.
ValueIsExpression(value) == IsExpression(value)

\* TensorDef.__setitem__, called as `call` with arguments `args`.
SetItem(call, args, tdef, dims, value) ==
  IF ~ValueIsExpression(value)
  THEN /\ result' = Raised(call, args, "ValueError")
       /\ UNCHANGED <<tensorVars, opVars, input>>
  ELSE IF GetItem(tdef, dims).error # "none"
  THEN /\ result' = Raised(call, args, GetItem(tdef, dims).error)
       /\ UNCHANGED <<tensorVars, opVars, input>>
  ELSE /\ CompCount < MaxComps
       /\ AppendTo(owner[tdef][1],
                   Comprehension(<<<<GetItem(tdef, dims).value[1], value>>>>))
       /\ result' = Returned(call, args, None)
       /\ UNCHANGED <<tensorVars, registered_tensors, affine_state, resolved, input>>

\* The statement tdef[dims] = value.
setitem(tdef, dims, value) ==
  SetItem("setitem", [tensor |-> tdef, dims |-> dims, value |-> value],
          tdef, dims, value)

\* The statement tdef[dims] += rhs: tdef.__getitem__(dims), then
\* __iadd__(rhs) on the TensorUse, then tdef.__setitem__(dims, ...) with
\* what __iadd__ returned; an exception of any of the three ends it.
accumulate(tdef, dims, rhs) ==
  LET args == [tensor |-> tdef, dims |-> dims, rhs |-> rhs]
  IN \E use \in {GetItem(tdef, dims)} :
       IF use.error # "none"
       THEN /\ result' = Raised("accumulate", args, use.error)
            /\ UNCHANGED <<tensorVars, opVars, input>>
       ELSE \E r \in iadd(use.value[1], rhs) :
              IF r.error # "none"
              THEN /\ result' = Raised("accumulate", args, r.error)
                   /\ UNCHANGED <<tensorVars, opVars, input>>
              ELSE SetItem("accumulate", args, tdef, dims, r.value[1])

-----------------------------------------------------------------------------
(* The symbol allocator (AffineBuildState) and shape coercion. *)

\* AffineBuildState(global_state=..., allow_new_symbols=..., allow_new_dims=...):
\* a scope.  With a global state it works on that state's tables (`root` names
\* the TcOpDef they belong to); without, on empty tables of its own.  It
\* keeps the names it resolved itself: dim_count and symbol_count count those.
AffineBuildState(root, tables, allow_new_symbols, allow_new_dims) ==
  [root |-> root, all_dims |-> tables.all_dims, all_symbols |-> tables.all_symbols,
   allow_new_symbols |-> allow_new_symbols, allow_new_dims |-> allow_new_dims,
   local_dims |-> {}, local_symbols |-> {}]

EmptyTables == [all_dims |-> <<>>, all_symbols |-> <<>>]

\* The position of a name in a table: the number of names recorded before it.
PositionIn(table, name) == (CHOOSE i \in DOMAIN table : table[i] = name) - 1

\* leaf.build(state=scope): the position of the leaf, reused if its name has
\* one, else the next position of the table if the scope permits a new entry
\* of its kind, else an error.
Resolve(scope, leaf) ==
  LET isDim == leaf.kind = "DimDef"
      table == IF isDim THEN scope.all_dims ELSE scope.all_symbols
      permit == IF isDim THEN scope.allow_new_dims ELSE scope.allow_new_symbols
      used == IF isDim THEN [scope EXCEPT !.local_dims = @ \cup {leaf.name}]
              ELSE [scope EXCEPT !.local_symbols = @ \cup {leaf.name}]
  IN IF leaf.name \in Range(table)
     THEN [error |-> "none", pos |-> PositionIn(table, leaf.name), scope |-> used]
     ELSE IF permit
     THEN [error |-> "none", pos |-> Len(table),
           scope |-> IF isDim
                     THEN [used EXCEPT !.all_dims = Append(@, leaf.name)]
                     ELSE [used EXCEPT !.all_symbols = Append(@, leaf.name)]]
     ELSE [error |-> "ValueError", pos |-> 0, scope |-> scope]

\* state.dim_count and state.symbol_count: the dimensions and the symbols the
\* scope resolved.
dim_count(scope) == Cardinality(scope.local_dims)
symbol_count(scope) == Cardinality(scope.local_symbols)

\* What a scope leaves in the tables of its TcOpDef.
TablesAfter(op, scope) ==
  IF scope.root = Some(op)
  THEN [all_dims |-> scope.all_dims, all_symbols |-> scope.all_symbols]
  ELSE affine_state[op]

\* The scopes a leaf is resolved in: the root state of the TcOpDef, the scope
\* of indexing (new symbols forbidden) and the scope of shapes (new dimensions
\* forbidden).
ScopeKinds == {"root", "index", "shape"}
ScopeOf(op, scope_kind) ==
  AffineBuildState(Some(op), affine_state[op],
                   scope_kind # "index", scope_kind # "shape")

\* leaf.build(state=...) in a scope of the TcOpDef.
build(op, scope_kind, leaf) ==
  \E r \in {Resolve(ScopeOf(op, scope_kind), leaf)},
     args \in {[op |-> op, scope |-> scope_kind, leaf |-> leaf]} :
     /\ affine_state' = [affine_state EXCEPT ![op] = TablesAfter(op, r.scope)]
     /\ IF r.error = "none"
        THEN /\ result' = Returned("build", args, Some(r.pos))
             /\ resolved' = [resolved EXCEPT ![op] = @ \cup {<<leaf.kind, leaf.name, r.pos>>}]
        ELSE /\ result' = Raised("build", args, r.error)
             /\ resolved' = resolved
     /\ UNCHANGED <<tensorVars, registered_tensors, comprehensions, input>>

\* The scope _coerce_to_shape builds its expressions in (DetachedShapeScope:
\* a scope created without global_state).
DetachedShapeScope(op) == AffineBuildState(None, EmptyTables, TRUE, FALSE)
ShapeScope(op) == AffineBuildState(Some(op), affine_state[op], TRUE, FALSE)

\* The loop of _coerce_to_shape over the rest of the shape specification:
\* the scope it ends in, the expressions built, and the error that ended it.
RECURSIVE CoerceLoop(_, _, _)
CoerceLoop(scope, rest, exprs) ==
  IF rest = <<>> THEN [error |-> "none", scope |-> scope, exprs |-> exprs]
  ELSE IF ~IsAffineExprDef(Head(rest))
  THEN [error |-> "ValueError", scope |-> scope, exprs |-> exprs]
  ELSE LET r == Resolve(scope, Head(rest))
       IN IF r.error # "none"
          THEN [error |-> r.error, scope |-> scope, exprs |-> exprs]
          ELSE CoerceLoop(r.scope, Tail(rest),
                          Append(exprs, <<Head(rest).kind, Head(rest).name, r.pos>>))

\* The affine expression built for a leaf: its kind and position.
BuiltExpr(e) == <<e[1], e[3]>>

\* op._coerce_to_shape(shape_spec): the map has the symbols this scope
\* resolved as its symbol_count, and expressions that refer to the positions
\* of the TcOpDef's table.
coerce_to_shape(op, shape_spec) ==
  LET args == [op |-> op, shape_spec |-> shape_spec]
  IN IF shape_spec.kind = "AffineMap"
     THEN /\ result' = Returned("coerce_to_shape", args, Some(shape_spec))
          /\ UNCHANGED <<tensorVars, opVars, input>>
     ELSE \E run \in {CoerceLoop(ShapeScope(op), shape_spec.items, <<>>)} :
          /\ affine_state' = [affine_state EXCEPT ![op] = TablesAfter(op, run.scope)]
          /\ resolved' = [resolved EXCEPT ![op] = @ \cup Range(run.exprs)]
          /\ result' =
               IF run.error # "none" THEN Raised("coerce_to_shape", args, run.error)
               ELSE IF dim_count(run.scope) # 0
               THEN Raised("coerce_to_shape", args, "AssertionError")
               ELSE Returned("coerce_to_shape", args,
                             Some([kind |-> "AffineMap", dim_count |-> 0,
                                   symbol_count |-> symbol_count(run.scope),
                                   exprs |-> [i \in DOMAIN run.exprs |->
                                                BuiltExpr(run.exprs[i])]]))
          /\ UNCHANGED <<tensorVars, registered_tensors, comprehensions, input>>

-----------------------------------------------------------------------------
(* The state after construction: TensorDef.__init__ and TcOpDef.__init__. *)

TensorDefInit ==
  /\ owner = [t \in TensorDefs |-> None]
  /\ tensor_name = [t \in TensorDefs |-> None]
  /\ registered_index = [t \in TensorDefs |-> None]

TcOpDefInit ==
  /\ registered_tensors = [o \in OpNames |-> <<>>]
  /\ comprehensions = [o \in OpNames |-> <<>>]
  /\ affine_state = [o \in OpNames |-> [all_dims |-> <<>>, all_symbols |-> <<>>]]
  /\ resolved = [o \in OpNames |-> {}]

Init ==
  /\ TensorDefInit
  /\ TcOpDefInit
  /\ input = None
  /\ result = Returned("init", None, None)

Next ==
  \/ \E op \in OpNames, tname \in TensorNames, t \in TensorDefs :
       add_tensor(op, tname, t)
  \/ \E t \in TensorDefs, index \in 0..MaxIndex, tname \in TensorNames, op \in OpNames :
       attach(t, index, tname, op)
  \/ \E op \in OpNames, tname \in TensorNames :
       tensor(op, tname)

Spec == Init /\ [][Next]_vars

-----------------------------------------------------------------------------
(* The declaration of an op: its tensors are registered, then indexed and    *)
(* assigned.                                                                 *)

D_m == DimDef("m")
D_n == DimDef("n")
D_k == DimDef("k")

\* The registrations a declaration makes, in the order it makes them: A and
\* B of matmul, then a third TensorDef as C of matmul or as A of conv.
Declarations ==
  <<<< <<"matmul", "A", 1>> >>, << <<"matmul", "B", 2>> >>,
    << <<"matmul", "C", 3>>, <<"conv", "A", 3>> >> >>
\* The number of registrations made so far.
Declared == SumLen(registered_tensors, OpNames)

\* The subscripts written: T[m, n], T[m], T[m, 0], T[0].
SubscriptPool ==
  <<PyTuple(<<D_m, D_n>>), D_m, PyTuple(<<D_m, PyInt("0")>>), PyInt("0")>>
\* The subscripts assigned through: T[m, n], T[m, 0], T[0].
AssignPool ==
  <<PyTuple(<<D_m, D_n>>), PyTuple(<<D_m, PyInt("0")>>), PyInt("0")>>
\* The tensors assigned to.
AssignTensors == {2, 3}
\* The values assigned: A[m, k] * B[k, n], A[m, n], the int 1, and
\* A[m, k] * 1.
ValuePool ==
  <<ExprMul(TensorUse(1, <<D_m, D_k>>), TensorUse(2, <<D_k, D_n>>)),
    TensorUse(1, <<D_m, D_n>>),
    PyIntValue,
    ExprMul(TensorUse(1, <<D_m, D_k>>), PyIntValue)>>

NextComp ==
  \/ /\ Declared < Len(Declarations)
     /\ \E i \in DOMAIN Declarations[Declared + 1] :
          LET d == Declarations[Declared + 1][i] IN add_tensor(d[1], d[2], d[3])
  \/ \E t \in TensorDefs, i \in DOMAIN SubscriptPool : getitem(t, SubscriptPool[i])
  \/ \E t \in AssignTensors, i \in DOMAIN AssignPool, j \in DOMAIN ValuePool :
       setitem(t, AssignPool[i], ValuePool[j])
  \/ \E t \in AssignTensors, i \in DOMAIN AssignPool, j \in DOMAIN ValuePool :
       accumulate(t, AssignPool[i], ValuePool[j])

SpecComp == Init /\ [][NextComp]_vars

-----------------------------------------------------------------------------
(* The pure functions of the expression classes, applied to given           *)
(* expressions.                                                              *)

\* The placeholders written as indices and reduction dimensions, in the order
\* the left-hand index tuples list them.
LeafOrder == <<D_m, D_n, D_k, SymbolDef("M")>>
Leaves == Range(LeafOrder)
LeafPos(l) == CHOOSE i \in DOMAIN LeafOrder : LeafOrder[i] = l

\* The index tuples of up to MaxRank distinct leaves, and those that repeat
\* one leaf.
IndexTuples ==
  {p \in UNION {[1..r -> Leaves] : r \in 1..MaxRank} :
     \A i, j \in DOMAIN p : p[i] = p[j] => i = j}
    \cup {<<l, l>> : l \in Leaves}
\* The left-hand index tuples: one per set of leaves.
LhsTuples ==
  {p \in IndexTuples : \A i, j \in DOMAIN p : i < j => LeafPos(p[i]) < LeafPos(p[j])}
\* The reduction dimensions written explicitly: none, or an index tuple.
ReduceDimTuples == {<<>>} \cup IndexTuples

\* What the constructors and operators accept without a check: a Python int
\* as operand (A[m, k] * 1, (A[m] * 1) * B[n], Prim.mul(1, A[m, k]),
\* reduce_add(k)(1)), as reduction dimension or as index, a placeholder as
\* operand (A[m] * D.k), and the int 1 itself as right-hand side.
RawOperands ==
  {ExprMul(TensorUse(1, <<D_m, D_k>>), PyIntValue),
   ExprMul(ExprMul(TensorUse(1, <<D_m>>), PyIntValue), TensorUse(2, <<D_n>>)),
   PrimApply("mul", <<PyIntValue, TensorUse(1, <<D_m, D_k>>)>>),
   ReduceApply(Reduce("add", <<D_k>>), <<PyIntValue>>),
   ReduceApply(Reduce("add", <<PyInt("0")>>), <<TensorUse(1, <<D_m>>)>>),
   TensorUse(1, <<D_m, PyInt("0")>>),
   ExprMul(TensorUse(1, <<D_m>>), D_k),
   PyIntValue}

\* The right-hand sides: A[i], A[i] * B[j], reduce_add(rd)(A[i]), and
\* reduce_max(rd)(A[i]) + B[j] with at most one rd and one index of B.
Expressions ==
  {TensorUse(1, i) : i \in IndexTuples}
    \cup {ExprMul(TensorUse(1, i), TensorUse(2, j)) : i, j \in IndexTuples}
    \cup {ReduceApply(Reduce("add", rd), <<TensorUse(1, i)>>) :
            rd \in ReduceDimTuples, i \in IndexTuples}
    \cup {ExprAdd(ReduceApply(Reduce("max", rd), <<TensorUse(1, i)>>), TensorUse(2, <<l>>)) :
            rd \in {<<>>} \cup {<<x>> : x \in Leaves}, i \in IndexTuples, l \in Leaves}
    \cup {BaseExpression}
    \cup RawOperands

InitExpr ==
  /\ TensorDefInit
  /\ TcOpDefInit
  /\ input \in [use : {TensorUse(3, i) : i \in LhsTuples \cup {<<PyInt("0")>>}},
                rhs : Expressions]
  /\ result = Returned("init", None, None)

\* input.rhs.visit_affine_exprs(callback): the values the callback was handed,
\* and the exception raised, if any.
call_visit_affine_exprs ==
  /\ \E v \in {visit_affine_exprs(input.rhs)} :
       result' = [call |-> "visit_affine_exprs", args |-> None,
                  error |-> v.error, value |-> Some(v.visited)]
  /\ UNCHANGED <<tensorVars, opVars, input>>

\* input.rhs._get_all_dim_defs().
call_get_all_dim_defs ==
  /\ \E d \in {get_all_dim_defs(input.rhs)} :
       result' = IF d.error # "none" THEN Raised("get_all_dim_defs", None, d.error)
                 ELSE Returned("get_all_dim_defs", None, Some(d.value))
  /\ UNCHANGED <<tensorVars, opVars, input>>

\* input.use._compute_reduce_dims(input.rhs).
call_compute_reduce_dims ==
  /\ \E d \in {compute_reduce_dims(input.use, input.rhs)} :
       result' = IF d.error # "none" THEN Raised("compute_reduce_dims", None, d.error)
                 ELSE Returned("compute_reduce_dims", None, Some(d.value))
  /\ UNCHANGED <<tensorVars, opVars, input>>

\* input.use.__iadd__(input.rhs).
call_iadd ==
  /\ \E r \in iadd(input.use, input.rhs) :
       result' = [call |-> "iadd", args |-> None, error |-> r.error, value |-> r.value]
  /\ UNCHANGED <<tensorVars, opVars, input>>

NextExpr ==
  \/ call_visit_affine_exprs
  \/ call_get_all_dim_defs
  \/ call_compute_reduce_dims
  \/ call_iadd

SpecExpr == InitExpr /\ [][NextExpr]_vars

-----------------------------------------------------------------------------
(* The numbering of placeholders within the TcOpDefs. *)

\* The placeholders each TcOpDef resolves: D.m, D.n, S.M and S.K in matmul,
\* S.K and S.M in conv.
AffineLeaves ==
  [op \in OpNames |->
     IF op = "matmul" THEN <<D_m, D_n, SymbolDef("M"), SymbolDef("K")>>
     ELSE <<SymbolDef("K"), SymbolDef("M")>>]
\* The members of a shape specification: the placeholders and the int 0.
ShapeItems == Range(AffineLeaves["matmul"]) \cup {PyInt("0")}
\* A shape given as a map built before.
PrebuiltMap ==
  [kind |-> "AffineMap", dim_count |-> 0, symbol_count |-> 1,
   exprs |-> << <<"SymbolDef", 0>> >>]
\* The shape specifications coerced, in matmul.
ShapeSpecs ==
  {PyTuple(p) : p \in UNION {[1..r -> ShapeItems] : r \in 1..MaxShape}}
    \cup {PrebuiltMap}

NextAffine ==
  \/ \E op \in OpNames, sk \in ScopeKinds :
       \E i \in DOMAIN AffineLeaves[op] : build(op, sk, AffineLeaves[op][i])
  \/ \E shape_spec \in ShapeSpecs :
       coerce_to_shape("matmul", shape_spec)

SpecAffine == Init /\ [][NextAffine]_vars

-----------------------------------------------------------------------------
(* Properties of the expression classes, checked under SpecExpr. *)

\* The concatenation of a sequence of sequences.
RECURSIVE Concat(_)
Concat(ss) == IF ss = <<>> THEN <<>> ELSE Head(ss) \o Concat(Tail(ss))

IsPrefix(s, t) == Len(s) <= Len(t) /\ SubSeq(t, 1, Len(s)) = s

\* The values an expression is built of that are neither a node nor a
\* placeholder, such as a Python int: whether it has any.
RECURSIVE HasRawValue(_)
HasRawValue(e) ==
  IF "node" \notin DOMAIN e THEN e.kind \notin {"DimDef", "SymbolDef"}
  ELSE CASE e.node = "TensorUse" -> \E i \in DOMAIN e.indices : HasRawValue(e.indices[i])
         [] e.node = "PrimApply" -> \E i \in DOMAIN e.args : HasRawValue(e.args[i])
         [] e.node = "ReduceApply" ->
              \/ \E i \in DOMAIN e.reduce.reduce_dims : HasRawValue(e.reduce.reduce_dims[i])
              \/ \E i \in DOMAIN e.args : HasRawValue(e.args[i])
         [] e.node = "Expression" -> FALSE
         [] OTHER -> TRUE

\* The dimension placeholders that occur in an expression, by its structure.
RECURSIVE DimLeaves(_)
DimLeaves(e) ==
  IF "node" \notin DOMAIN e THEN (IF e.kind = "DimDef" THEN {e} ELSE {})
  ELSE CASE e.node = "TensorUse" -> UNION {DimLeaves(e.indices[i]) : i \in DOMAIN e.indices}
         [] e.node = "PrimApply" -> UNION {DimLeaves(e.args[i]) : i \in DOMAIN e.args}
         [] e.node = "ReduceApply" ->
              UNION {DimLeaves(e.reduce.reduce_dims[i]) : i \in DOMAIN e.reduce.reduce_dims}
                \cup UNION {DimLeaves(e.args[i]) : i \in DOMAIN e.args}
         [] OTHER -> {}

\* The placeholders of an expression in the order a left-to-right,
\* depth-first reading of it meets them, a reduction's own dimensions before
\* its arguments.
RECURSIVE Walk(_)
Walk(e) ==
  IF "node" \notin DOMAIN e
  THEN (IF e.kind \in {"DimDef", "SymbolDef"} THEN <<e>> ELSE <<>>)
  ELSE CASE e.node = "TensorUse" -> Concat([i \in DOMAIN e.indices |-> Walk(e.indices[i])])
         [] e.node = "PrimApply" -> Concat([i \in DOMAIN e.args |-> Walk(e.args[i])])
         [] e.node = "ReduceApply" ->
              Concat([i \in DOMAIN e.reduce.reduce_dims |-> Walk(e.reduce.reduce_dims[i])])
                \o Concat([i \in DOMAIN e.args |-> Walk(e.args[i])])
         [] OTHER -> <<>>

\* The members of a sequence that satisfy Keep, each at its first occurrence.
FirstOccurrences(s, Keep(_)) ==
  LET kept == {i \in DOMAIN s : Keep(s[i]) /\ \A j \in 1..(i - 1) : s[j] # s[i]}
      rank(i) == Cardinality({j \in kept : j <= i})
  IN [r \in 1..Cardinality(kept) |-> s[CHOOSE i \in kept : rank(i) = r]]

\* C1: the set _compute_reduce_dims infers for a use L and an expression R
\* is the set of dimension leaves of R less those of L, and holds no symbol
\* leaf; lhs dims {m, n} with rhs dims {m, n, k} give {k}, and rhs dims within
\* the lhs dims give the empty set.  It infers a set for every L and R built
\* of nodes and placeholders only.
C1_ReduceDimsAreSetDifference ==
  result.call = "compute_reduce_dims" =>
    /\ (~HasRawValue(input.use) /\ ~HasRawValue(input.rhs)) => result.error = "none"
    /\ result.error = "none" =>
         LET v == result.value[1]
             L == DimLeaves(input.use)
             R == DimLeaves(input.rhs)
         IN /\ v = R \ L
            /\ \A a \in v : a.kind = "DimDef"
            /\ (L = {D_m, D_n} /\ R = {D_m, D_n, D_k}) => v = {D_k}
            /\ R \subseteq L => v = {}

\* C1 witness: lhs C[m, n], a right-hand side over m, n, k and the symbol M,
\* and {k} inferred.
C1_Witness ==
  /\ result.call = "compute_reduce_dims"
  /\ result.error = "none"
  /\ DimLeaves(input.use) = {D_m, D_n}
  /\ DimLeaves(input.rhs) = {D_m, D_n, D_k}
  /\ SymbolDef("M") \in Range(Walk(input.rhs))
  /\ result.value[1] = {D_k}

\* C3: the reduce_dims tuple __iadd__ builds lists the inferred dimensions in
\* the order a left-to-right, depth-first walk of the right-hand side first
\* meets them.
C3_ReduceDimsInWalkOrder ==
  (result.call = "iadd" /\ result.error = "none") =>
    LET Inferred(a) == a.kind = "DimDef" /\ a \notin Range(input.use.indices)
    IN result.value[1].reduce.reduce_dims = FirstOccurrences(Walk(input.rhs), Inferred)

\* C9: visit_affine_exprs hands the visitor the indices of a TensorUse in
\* order, the leaves of each argument of a PrimApply in order, and for a
\* ReduceApply its own reduction dimensions first and then the leaves of its
\* arguments; so a traversal that returns has visited every leaf, one that
\* raises has visited the leaves before the value that has no traversal, and
\* a reduction dimension that no argument mentions is a free dimension of the
\* right-hand side it is in.
C9_VisitReachesEveryLeaf ==
  /\ result.call = "visit_affine_exprs" =>
       LET v == result.value[1]
           e == input.rhs
       IN /\ IsPrefix(v, Walk(e))
          /\ ~HasRawValue(e) => result.error = "none"
          /\ result.error = "none" =>
               /\ v = Walk(e)
               /\ e.node = "TensorUse" => v = e.indices
               /\ e.node = "ReduceApply" =>
                    /\ SubSeq(v, 1, Len(e.reduce.reduce_dims)) = e.reduce.reduce_dims
                    /\ SubSeq(v, Len(e.reduce.reduce_dims) + 1, Len(v)) = e.args[1].indices
               /\ {a \in Range(v) : a.kind = "DimDef"} = DimLeaves(e)
  /\ (/\ result.call = "compute_reduce_dims"
      /\ result.error = "none"
      /\ input.rhs.node = "ReduceApply") =>
       \A i \in DOMAIN input.rhs.reduce.reduce_dims :
         LET d == input.rhs.reduce.reduce_dims[i]
         IN (d.kind = "DimDef" /\ d \notin Range(input.use.indices))
              => d \in result.value[1]

\* C9 witness: reduce_add(k)(A[m, n]) has been visited, k first, though no
\* argument mentions k.
C9_Witness ==
  /\ result.call = "visit_affine_exprs"
  /\ result.error = "none"
  /\ input.rhs.node = "ReduceApply"
  /\ input.rhs.reduce.reduce_dims = <<D_k>>
  /\ input.rhs.args[1].indices = <<D_m, D_n>>
  /\ result.value[1] = <<D_k, D_m, D_n>>

-----------------------------------------------------------------------------
(* Properties of the numbering, checked under SpecAffine. *)

\* The table of a TcOpDef that numbers the placeholders of a kind.
TableOf(op, kind) ==
  IF kind = "DimDef" THEN affine_state[op].all_dims ELSE affine_state[op].all_symbols

\* C8: within one TcOpDef every resolution of a placeholder, through the root
\* state or through a scope of indexing or of shapes, returns the same
\* position; a new name gets the next unused position of the root table, and
\* no entry of a root table is ever renumbered.
C8_StableNumbering ==
  /\ [](\A op \in OpNames :
          /\ \A x, y \in resolved[op] : (x[1] = y[1] /\ x[2] = y[2]) => x[3] = y[3]
          /\ \A x \in resolved[op] :
               /\ x[3] + 1 \in DOMAIN TableOf(op, x[1])
               /\ TableOf(op, x[1])[x[3] + 1] = x[2])
  /\ [][\A op \in OpNames :
          /\ IsPrefix(affine_state[op].all_dims, affine_state'[op].all_dims)
          /\ IsPrefix(affine_state[op].all_symbols, affine_state'[op].all_symbols)]_vars

\* C8 witness: S.K, numbered 1 in matmul after another symbol, has just been
\* resolved again by a shape coercion that ran with a dimension and both
\* symbols recorded, and came out as position 1.
C8_Witness ==
  /\ result.call = "coerce_to_shape"
  /\ result.error = "none"
  /\ result.args.op = "matmul"
  /\ result.args.shape_spec.kind = "tuple"
  /\ affine_state["matmul"].all_symbols = <<"M", "K">>
  /\ affine_state["matmul"].all_dims # <<>>
  /\ result.value[1].exprs = << <<"SymbolDef", 1>> >>
  /\ affine_state["conv"].all_symbols = <<"K">>

-----------------------------------------------------------------------------
(* Properties of indexing and assignment, checked under SpecComp. *)

\* The index values of a subscript, and whether one of them is no symbolic
\* leaf.
IndicesOf(dims) == IF dims.kind = "tuple" THEN dims.items ELSE <<dims>>
HasNonLeaf(dims) ==
  \E i \in DOMAIN IndicesOf(dims) : IndicesOf(dims)[i].kind \notin {"DimDef", "SymbolDef"}

\* The statement C[m, n] += A[m, k] * B[k, n] and the comprehension it is to
\* register.
MatmulRhs ==
  [node |-> "PrimApply", prim |-> "mul",
   args |-> <<[node |-> "TensorUse", tensor_def |-> 1, indices |-> <<D_m, D_k>>],
              [node |-> "TensorUse", tensor_def |-> 2, indices |-> <<D_k, D_n>>]>>]
MatmulArgs == [tensor |-> 3, dims |-> PyTuple(<<D_m, D_n>>), rhs |-> MatmulRhs]
MatmulComprehension ==
  [definitions |-> <<[node |-> "TensorUse", tensor_def |-> 3, indices |-> <<D_m, D_n>>]>>,
   values |-> <<[node |-> "ReduceApply",
                 reduce |-> [operator |-> "add", reduce_dims |-> <<D_k>>],
                 args |-> <<MatmulRhs>>]>>]

\* C2: T[idx] += R on an attached tensor, with leaf indices and an Expression
\* R, succeeds and appends to the owner exactly one Comprehension, whose one
\* pair binds the TensorUse T[idx] to the ReduceApply of reduce_add over the
\* inferred dimensions (the dimension leaves of R that are not among idx, each
\* once, possibly none) with the single argument R.  For the matmul statement
\* on three registered tensors the one comprehension is reduce_add over (k)
\* applied to mul(A[m, k], B[k, n]).
C2_AccumulateRegisters ==
  [][(/\ result'.call = "accumulate"
      /\ owner[result'.args.tensor] # None
      /\ ~HasNonLeaf(result'.args.dims)
      /\ result'.args.rhs.node \in {"Expression", "TensorUse", "PrimApply", "ReduceApply"})
       => LET t == result'.args.tensor
              o == owner[t][1]
              rhs == result'.args.rhs
              idx == IndicesOf(result'.args.dims)
              inferred == DimLeaves(rhs) \ {idx[i] : i \in DOMAIN idx}
              c == comprehensions'[o][Len(comprehensions'[o])]
          IN /\ result'.error = "none"
             /\ Len(comprehensions'[o]) = Len(comprehensions[o]) + 1
             /\ SubSeq(comprehensions'[o], 1, Len(comprehensions[o])) = comprehensions[o]
             /\ Len(c.definitions) = 1
             /\ Len(c.values) = 1
             /\ c.definitions[1] = [node |-> "TensorUse", tensor_def |-> t, indices |-> idx]
             /\ c.values[1].node = "ReduceApply"
             /\ c.values[1].reduce.operator = "add"
             /\ Range(c.values[1].reduce.reduce_dims) = inferred
             /\ Len(c.values[1].reduce.reduce_dims) = Cardinality(inferred)
             /\ c.values[1].args = <<rhs>>
             /\ (/\ result'.args = MatmulArgs
                 /\ comprehensions["matmul"] = <<>>
                 /\ o = "matmul")
                  => /\ Len(registered_tensors'["matmul"]) = 3
                     /\ comprehensions'["matmul"] = <<MatmulComprehension>>]_vars

\* C6: subscripting or assigning to an attached tensor with an index value
\* that is no symbolic leaf, or assigning a value that is no Expression,
\* raises (KeyError for the index, ValueError for the value) and leaves every
\* comprehension list as it was.
C6_BadIndexOrValueRejected ==
  [][(\/ /\ result'.call \in {"getitem", "setitem", "accumulate"}
         /\ owner[result'.args.tensor] # None
         /\ HasNonLeaf(result'.args.dims)
      \/ /\ result'.call = "setitem"
         /\ result'.args.value.node \notin {"Expression", "TensorUse", "PrimApply", "ReduceApply"})
       => /\ result'.error \in {"KeyError", "ValueError"}
          /\ comprehensions' = comprehensions]_vars

\* C6 witness: T[0] = E, with E an Expression, has just failed on an attached
\* tensor of an op that holds a comprehension.
C6_Witness ==
  /\ result.call = "setitem"
  /\ result.error = "KeyError"
  /\ result.args.dims = PyInt("0")
  /\ result.args.value.node = "PrimApply"
  /\ owner[result.args.tensor] # None
  /\ comprehensions[owner[result.args.tensor][1]] # <<>>

\* C10: a successful T[idx] = E appends to the end of the list of T's owner
\* exactly one Comprehension of the one pair (T[idx], E) and changes nothing
\* else; T[idx] alone changes nothing; and every comprehension has as many
\* definitions as values, one.
C10_AssignmentFrame ==
  /\ [][/\ (result'.call = "setitem" /\ result'.error = "none")
             => LET t == result'.args.tensor
                    o == owner[t][1]
                IN /\ comprehensions'[o] =
                        comprehensions[o] \o
                          << [definitions |->
                                <<[node |-> "TensorUse", tensor_def |-> t,
                                   indices |-> IndicesOf(result'.args.dims)]>>,
                              values |-> <<result'.args.value>>] >>
                   /\ \A o2 \in OpNames \ {o} : comprehensions'[o2] = comprehensions[o2]
                   /\ registered_tensors' = registered_tensors
                   /\ owner' = owner
                   /\ tensor_name' = tensor_name
                   /\ registered_index' = registered_index
                   /\ affine_state' = affine_state
        /\ result'.call = "getitem"
             => UNCHANGED <<owner, tensor_name, registered_index, registered_tensors,
                            comprehensions, affine_state>>]_vars
  /\ [](\A o \in OpNames : \A i \in DOMAIN comprehensions[o] :
          /\ Len(comprehensions[o][i].definitions) = 1
          /\ Len(comprehensions[o][i].values) = 1)

\* C10 witness: an assignment has just been appended behind an earlier
\* comprehension of the same op.
C10_Witness ==
  /\ result.call = "setitem"
  /\ result.error = "none"
  /\ Len(comprehensions[owner[result.args.tensor][1]]) = 2

-----------------------------------------------------------------------------
(* Properties of registration, checked under Spec. *)

\* The registry entries (op, position) that hold a TensorDef.
EntriesOf(t) ==
  {e \in UNION {{<<o, i>> : i \in DOMAIN registered_tensors[o]} : o \in OpNames} :
     registered_tensors[e[1]][e[2]][2] = t}

\* C4: add_tensor under a name already registered in the same TcOpDef raises
\* (a ValueError, or the KeyError of its message), and the registry of every
\* TcOpDef and the owner, name and index of every TensorDef, the second tdef
\* included, stay as they were: the name still maps to the first tdef.
C4_DuplicateNameRejected ==
  [][(/\ result'.call = "add_tensor"
      /\ result'.args.tensor_name \in Keys(registered_tensors[result'.args.op]))
       => /\ result'.error \in {"ValueError", "KeyError"}
          /\ registered_tensors' = registered_tensors
          /\ DictGet(registered_tensors'[result'.args.op], result'.args.tensor_name)
               = DictGet(registered_tensors[result'.args.op], result'.args.tensor_name)
          /\ owner' = owner
          /\ tensor_name' = tensor_name
          /\ registered_index' = registered_index]_vars

\* C4 witness: a registration under a registered name has just failed, the
\* tdef it was given being unattached.
C4_Witness ==
  /\ result.call = "add_tensor"
  /\ result.error # "none"
  /\ result.args.tensor_name \in Keys(registered_tensors[result.args.op])
  /\ owner[result.args.tensor] = None
  /\ owner[DictGet(registered_tensors[result.args.op], result.args.tensor_name)]
       = Some(result.args.op)

\* C5: attaching an attached TensorDef, by attach or by add_tensor under any
\* name in any TcOpDef, raises and leaves its owner, name and index and every
\* registry unchanged; so a TensorDef never has more than one registry entry.
C5_AttachOnce ==
  /\ [][(/\ result'.call \in {"attach", "add_tensor"}
         /\ owner[result'.args.tensor] # None)
          => /\ result'.error # "none"
             /\ owner'[result'.args.tensor] = owner[result'.args.tensor]
             /\ tensor_name'[result'.args.tensor] = tensor_name[result'.args.tensor]
             /\ registered_index'[result'.args.tensor] = registered_index[result'.args.tensor]
             /\ registered_tensors' = registered_tensors]_vars
  /\ [](\A t \in TensorDefs : Cardinality(EntriesOf(t)) <= 1)

\* C5 witness: add_tensor has just failed on a TensorDef registered in the
\* other TcOpDef, under a name that is free in the TcOpDef it was called on.
C5_Witness ==
  /\ result.call = "add_tensor"
  /\ result.error # "none"
  /\ result.args.tensor_name \notin Keys(registered_tensors[result.args.op])
  /\ owner[result.args.tensor] # None
  /\ owner[result.args.tensor] # Some(result.args.op)
  /\ Cardinality(EntriesOf(result.args.tensor)) = 1

\* C7: in every reachable state the names of a TcOpDef are unique, the i-th
\* tdef in insertion order has registration index i (counted from 0), its
\* assigned name is its key and its owner is the TcOpDef.
C7_RegistryConsistent ==
  \A op \in OpNames :
    LET d == registered_tensors[op]
    IN /\ \A i, j \in DOMAIN d : d[i][1] = d[j][1] => i = j
       /\ \A i \in DOMAIN d :
            /\ registered_index[d[i][2]] = Some(i - 1)
            /\ tensor_name[d[i][2]] = Some(d[i][1])
            /\ owner[d[i][2]] = Some(op)

\* C7 witness: three tensors registered in one TcOpDef, the last call a
\* failed registration.
C7_Witness ==
  /\ \E op \in OpNames : Len(registered_tensors[op]) = 3
  /\ result.call = "add_tensor"
  /\ result.error # "none"

====
